---- MODULE Spec2Model ----
(***************************************************************************)
(* Conversation-state core of the chat relay bot: ChatHistory              *)
(* (bot/history.py), the persistence ports (bot/persistence.py), the       *)
(* providers (bot/ai_provider.py) and the orchestration AIHelper           *)
(* (bot/openai_helper.py).                                                 *)
(*                                                                         *)
(* A message is a record [role, content]; a content is a sequence of       *)
(* one-character strings, so that "\n"-joining, emptiness and length are   *)
(* computed and not assumed.  A turn (get_chat_response) is a coroutine:   *)
(* it runs atomically up to `await client...create(...)`, is suspended     *)
(* there, and on a rate-limit error is suspended again in the retry        *)
(* decorator's wait_fixed(20) sleep.                                       *)
(***************************************************************************)
EXTENDS Integers, Sequences, FiniteSets, TLC

\* ------------------------------------------------------------------ bounds
MaxTurns == 2
MaxLen == 3
MaxContent == 3
MaxSeq == 3

\* Chat identities, and the coroutines the transport may have running.
Chats == {1, 2}
Tasks == {1, 2}

\* ------------------------------------------------------- program constants
MaxAttempts == 3
Base == 4096
ReplyPriming == 3
TokensPerMessageGpt3 == 4
TokensPerMessageGpt4 == 3

GPT_3_MODELS == {"gpt-3.5-turbo", "gpt-3.5-turbo-0301", "gpt-3.5-turbo-0613"}
GPT_3_16K_MODELS == {"gpt-3.5-turbo-16k", "gpt-3.5-turbo-16k-0613", "gpt-3.5-turbo-1106", "gpt-3.5-turbo-0125"}
GPT_4_MODELS == {"gpt-4", "gpt-4-0314", "gpt-4-0613", "gpt-4-turbo-preview"}
GPT_4_32K_MODELS == {"gpt-4-32k", "gpt-4-32k-0314", "gpt-4-32k-0613"}
GPT_4_VISION_MODELS == {"gpt-4-vision-preview"}
GPT_4_128K_MODELS == {"gpt-4-1106-preview", "gpt-4-0125-preview", "gpt-4-turbo-preview", "gpt-4-turbo", "gpt-4-turbo-2024-04-09"}
GPT_4O_MODELS == {"gpt-4o"}

\* ---------------------------------------------------------------- messages
NL == "\n"
Msg(role, content) == [role |-> role, content |-> content]

\* AIProvider.get_human_role / get_ai_role
get_human_role == "user"
get_ai_role == "assistant"

\* What the environment supplies: user queries, backend replies with their
\* token usage, and (for a stubbed summariser) summaries.
Queries == {<<"a">>, <<"c">>}
\* The queries differ in nothing but their name, so the first one of a run is
\* taken to be this one.
FirstQuery == <<"a">>
Replies == {<<"b">>}
Usages == {5}
Summaries == {<<"s">>}

\* What the awaited client call can raise: each provider's client raises its
\* own library's exception classes.
Signals(provider) ==
    IF provider = "claude"
    THEN {"anthropic.RateLimitError", "anthropic.BadRequestError", "Exception"}
    ELSE {"openai.RateLimitError", "openai.BadRequestError", "Exception"}
RateLimitSignals == {"openai.RateLimitError", "anthropic.RateLimitError"}
BadRequestSignals == {"openai.BadRequestError", "anthropic.BadRequestError"}

\* ------------------------------------------------------------ ChatHistory
\* A ChatHistory object: `none` is TRUE when self.messages is None (what the
\* no-op port's load_conversation returns); messages is then kept <<>>.
History(none, messages) == [none |-> none, messages |-> messages]

\* self.messages[-max_len:] with Python's slice semantics: -0 is 0, so the
\* slice with max_len = 0 is the whole list.
PySliceLast(s, n) ==
    IF n = 0 \/ n >= Len(s) THEN s ELSE SubSeq(s, Len(s) - n + 1, Len(s))

\* ChatHistory.trim: reassigns self.messages, no save.
trim(h, max_len) == History(h.none, PySliceLast(h.messages, max_len))

\* str.strip() removes these; a content is blank when strip() leaves ''.
Whitespace == {" ", "\t", NL}
IsBlank(content) == \A i \in 1..Len(content) : content[i] \in Whitespace

\* ChatHistory.merge_consecutive_messages (ClaudeProvider's static method is
\* the same loop over its argument), walked over the list: merged holds the
\* very dicts of the list, and `merged[-1]['content'] += f"\n{...}"` writes
\* into the dict at the head of the run.  hist is the list after the writes,
\* heads the positions of the dicts in merged.
RECURSIVE MergeLoop(_, _, _)
MergeLoop(hist, i, heads) ==
    IF i > Len(hist) THEN [hist |-> hist, heads |-> heads]
    ELSE IF hist[i].role = hist[heads[Len(heads)]].role
         THEN MergeLoop([hist EXCEPT ![heads[Len(heads)]].content =
                                          @ \o <<NL>> \o hist[i].content],
                        i + 1, heads)
         ELSE MergeLoop(hist, i + 1, Append(heads, i))

\* The join with no separator: what line 128 would do without its "\n".
merge_consecutive_messages_unseparated(messages) ==
    IF messages = <<>> THEN [merged |-> <<>>, hist |-> messages]
    ELSE LET w == MergeLoop(messages, 2, <<1>>)
             bare(k) == LET last == IF k = Len(w.heads) THEN Len(messages)
                                    ELSE w.heads[k + 1] - 1
                            RECURSIVE Cat(_)
                            Cat(j) == IF j > last THEN <<>>
                                      ELSE messages[j].content \o Cat(j + 1)
                        IN  Msg(messages[w.heads[k]].role, Cat(w.heads[k]))
         IN  [merged |-> [k \in 1..Len(w.heads) |-> bare(k)], hist |-> w.hist]

\* The merge that keeps only the first message of a run.
merge_consecutive_messages_first_only(messages) ==
    IF messages = <<>> THEN [merged |-> <<>>, hist |-> messages]
    ELSE LET w == MergeLoop(messages, 2, <<1>>)
         IN  [merged |-> [k \in 1..Len(w.heads) |-> messages[w.heads[k]]],
              hist |-> messages]

\* merged = the returned list, hist = self.messages afterwards.
merge_consecutive_messages(messages) ==
    IF messages = <<>> THEN [merged |-> <<>>, hist |-> messages]
    ELSE LET w == MergeLoop(messages, 2, <<1>>)
         IN  [merged |-> [k \in 1..Len(w.heads) |-> w.hist[w.heads[k]]],
              hist |-> w.hist]

\* A system prompt as extract_system_prompt returns it: None or a text.
NoPrompt == [none |-> TRUE, text |-> <<>>]
Prompt(text) == [none |-> FALSE, text |-> text]

\* ChatHistory.extract_system_prompt (ClaudeProvider's static method is the
\* same loop over its argument): the loop keeps the content of the system
\* message it saw last and collects the others into a new list.
RECURSIVE ExtractLoop(_, _, _, _)
ExtractLoop(messages, i, system_prompt, remaining_messages) ==
    IF i > Len(messages)
    THEN [remaining |-> remaining_messages, system_prompt |-> system_prompt,
          hist |-> messages]
    ELSE IF messages[i].role = "system"
         THEN ExtractLoop(messages, i + 1, Prompt(messages[i].content), remaining_messages)
         ELSE ExtractLoop(messages, i + 1, system_prompt,
                          Append(remaining_messages, messages[i]))

\* The extraction that keeps the first system message's content.
extract_system_prompt_first(messages) ==
    LET r == ExtractLoop(messages, 1, NoPrompt, <<>>)
        sys == {i \in 1..Len(messages) : messages[i].role = "system"}
    IN  [r EXCEPT !.system_prompt =
            IF sys = {} THEN NoPrompt
            ELSE Prompt(messages[CHOOSE i \in sys : \A j \in sys : i <= j].content)]

\* The extraction that reports the prompt and leaves the system messages in.
extract_system_prompt_unfiltered(messages) ==
    [ExtractLoop(messages, 1, NoPrompt, <<>>) EXCEPT !.remaining = messages]

extract_system_prompt(messages) == ExtractLoop(messages, 1, NoPrompt, <<>>)

\* The replacement that replaces every content.
replace_empty_messages_all(messages, replacement) ==
    [i \in 1..Len(messages) |-> Msg(messages[i].role, replacement)]

\* ChatHistory.replace_empty_messages: a new list of new dicts.
replace_empty_messages(messages, replacement) ==
    [i \in 1..Len(messages) |->
        Msg(messages[i].role,
            IF IsBlank(messages[i].content) THEN replacement ELSE messages[i].content)]

\* --------------------------------------------------------- persistence port
\* The store of one chat: exists = a file / node is there, data = its content
\* (the file's text, the node's list).
NoFile == [exists |-> FALSE, data |-> <<>>]
File(data) == [exists |-> TRUE, data |-> data]

\* json.dump(conversation, f, ensure_ascii=False, indent=2) as the text it
\* writes, one element per character (a key or a role label is one element;
\* the indentation, which json.load skips, is left out): a string is quoted,
\* with the quote, the backslash and the control characters escaped.
\* JsonEscape writes a content from position j on, JsonWrite the list from
\* message i on.
Quote == "\""
Backslash == "\\"
RECURSIVE JsonEscape(_, _)
JsonEscape(content, j) ==
    IF j > Len(content) THEN <<>>
    ELSE (CASE content[j] = Quote -> <<Backslash, Quote>>
            [] content[j] = Backslash -> <<Backslash, Backslash>>
            [] content[j] = NL -> <<Backslash, "n">>
            [] content[j] = "\t" -> <<Backslash, "t">>
            [] OTHER -> <<content[j]>>)
             \o JsonEscape(content, j + 1)
RECURSIVE JsonWrite(_, _)
JsonWrite(conversation, i) ==
    IF i > Len(conversation) THEN <<"]">>
    ELSE <<"{", Quote, "role", Quote, ":", Quote, conversation[i].role, Quote, ",",
           Quote, "content", Quote, ":", Quote>>
             \o JsonEscape(conversation[i].content, 1)
             \o (IF i < Len(conversation) THEN <<Quote, "}", ",">> ELSE <<Quote, "}">>)
             \o JsonWrite(conversation, i + 1)
json_dump(conversation) == <<"[">> \o JsonWrite(conversation, 1)

\* json.load(f) on such a text. JsonString reads a string whose opening
\* quote is passed, from position i: the characters are collected, escapes
\* undone, up to the closing quote; next is the position after it. JsonRead
\* reads the list from position i: the punctuation is passed, "}" closes the
\* dict and "]" the list; a dict's strings are in turn a key (key = "" while
\* none is read) and its value.
RECURSIVE JsonString(_, _, _)
JsonString(text, i, str) ==
    IF text[i] = Quote THEN [str |-> str, next |-> i + 1]
    ELSE IF text[i] = Backslash
         THEN JsonString(text, i + 2,
                         Append(str, CASE text[i + 1] = "n" -> NL
                                       [] text[i + 1] = "t" -> "\t"
                                       [] OTHER -> text[i + 1]))
    ELSE JsonString(text, i + 1, Append(str, text[i]))
RECURSIVE JsonRead(_, _, _, _, _)
JsonRead(text, i, key, msg, acc) ==
    IF text[i] = "]" THEN acc
    ELSE IF text[i] = "}" THEN JsonRead(text, i + 1, "", msg, Append(acc, msg))
    ELSE IF text[i] = Quote
         THEN LET s == JsonString(text, i + 1, <<>>)
              IN  IF key = "" THEN JsonRead(text, s.next, s.str[1], msg, acc)
                  ELSE JsonRead(text, s.next, "",
                                IF key = "role" THEN [msg EXCEPT !.role = s.str[1]]
                                ELSE [msg EXCEPT !.content = s.str],
                                acc)
    ELSE JsonRead(text, i + 1, key, msg, acc)
json_load(text) == JsonRead(text, 2, "", Msg("", <<>>), <<>>)

\* load_conversation of the three shipped ports; the result is what
\* ChatHistory.load assigns to self.messages.
load_conversation(kind, st) ==
    CASE kind = "noop" -> History(TRUE, <<>>)
      [] kind = "json" -> IF st.exists THEN History(FALSE, json_load(st.data))
                          ELSE History(FALSE, <<>>)
      [] kind = "firebase" -> IF st.exists /\ st.data # <<>> THEN History(FALSE, st.data) ELSE History(FALSE, <<>>)

\* save_conversation: full replace for the file and the hosted store (which
\* keeps no node for an empty list), nothing for the no-op port.
save_conversation(kind, st, conversation) ==
    CASE kind = "noop" -> st
      [] kind = "json" -> File(json_dump(conversation))
      [] kind = "firebase" -> IF conversation = <<>> THEN NoFile ELSE File(conversation)

\* ChatHistory.add: append, then save (self.messages is None raises before
\* anything is stored; callers test h.none first).
add(kind, h, st, role, content) ==
    LET messages == Append(h.messages, Msg(role, content))
    IN  [h |-> History(FALSE, messages), st |-> save_conversation(kind, st, messages)]

\* An add that builds the new list, saves it and only then assigns it: a
\* failing save leaves self.messages without the message.
add_assigns_after_save(kind, h, st, role, content) ==
    [h |-> h, st |-> st, raised |-> TRUE]

\* ChatHistory.add when the port's save_conversation raises and has stored
\* nothing (the file cannot be opened, the connection is down): the append
\* of line 21 is done, line 22 raises, and add catches nothing.
add_save_raises(kind, h, st, role, content) ==
    [h |-> History(FALSE, Append(h.messages, Msg(role, content))), st |-> st,
     raised |-> TRUE]

\* ChatHistory.clear: self.messages = [], then save.
clear(kind, h, st) ==
    [h |-> History(FALSE, <<>>), st |-> save_conversation(kind, st, <<>>)]

\* ChatHistory(chat_id, persistence): __init__ calls load().
NewChatHistory(kind, st) == load_conversation(kind, st)

\* --------------------------------------------------------- token accounting
GPT_ALL_MODELS ==
    GPT_3_MODELS \cup GPT_3_16K_MODELS \cup GPT_4_MODELS \cup GPT_4_32K_MODELS
        \cup GPT_4_VISION_MODELS \cup GPT_4_128K_MODELS \cup GPT_4O_MODELS

\* len(encoding.encode(text)): the tokenizer is an external library; one token
\* per character of a content, one token for a role label.
EncodeLen(content) == Len(content)
RoleTokens(role) == 1

\* tokens_per_message of __count_tokens (0 stands for the NotImplementedError
\* branch, which KnownModel excludes).
tokens_per_message(model) ==
    IF model \in GPT_3_MODELS \cup GPT_3_16K_MODELS THEN TokensPerMessageGpt3
    ELSE IF model \in GPT_4_MODELS \cup GPT_4_32K_MODELS \cup GPT_4_VISION_MODELS
                        \cup GPT_4_128K_MODELS \cup GPT_4O_MODELS THEN TokensPerMessageGpt4
    ELSE 0

\* Neither __count_tokens nor __max_model_tokens raises for this model.
KnownModel(model) == model \in GPT_ALL_MODELS

RECURSIVE SumTokens(_, _)
SumTokens(messages, model) ==
    IF messages = <<>> THEN 0
    ELSE tokens_per_message(model) + RoleTokens(Head(messages).role)
           + EncodeLen(Head(messages).content) + SumTokens(Tail(messages), model)

\* A count that leaves out the priming of the reply.
count_tokens_unprimed(messages, model) == SumTokens(messages, model)

\* AIHelper.__count_tokens for messages with the keys role and content: every
\* key's value is encoded, the role label included.
count_tokens(messages, model) == SumTokens(messages, model) + ReplyPriming

\* AIHelper.__max_model_tokens (first matching family wins).
max_model_tokens(model) ==
    IF model \in GPT_3_MODELS THEN Base
    ELSE IF model \in GPT_3_16K_MODELS THEN Base * 4
    ELSE IF model \in GPT_4_MODELS THEN Base * 2
    ELSE IF model \in GPT_4_32K_MODELS THEN Base * 8
    ELSE Base * 31

\* The token threshold with an inclusive comparison: the variant that the
\* strictness of line 162 rules out.
exceeded_max_tokens_inclusive(messages, model, max_tokens) ==
    count_tokens(messages, model) + max_tokens >= max_model_tokens(model)

\* Lines 162-163: the two thresholds, both strict.
exceeded_max_tokens(messages, model, max_tokens) ==
    count_tokens(messages, model) + max_tokens > max_model_tokens(model)

exceeded_max_history_size(messages, max_history_size) ==
    Len(messages) > max_history_size

\* ------------------------------------------------------------- providers
\* ClaudeProvider.extract_system_prompt followed by merge_consecutive_messages,
\* walked over the list the history holds.  The message dicts are shared with
\* the history, and `merged[-1]['content'] += ...` writes into the dict at the
\* head of the run: hist is the history's list after those writes, heads the
\* positions of the messages that make up the merged list.
RECURSIVE MergeWalk(_, _, _)
MergeWalk(hist, i, heads) ==
    IF i > Len(hist) THEN [hist |-> hist, heads |-> heads]
    ELSE IF hist[i].role = "system" THEN MergeWalk(hist, i + 1, heads)
    ELSE IF heads # <<>> /\ hist[i].role = hist[heads[Len(heads)]].role
         THEN MergeWalk([hist EXCEPT ![heads[Len(heads)]].content = @ \o <<NL>> \o hist[i].content],
                        i + 1, heads)
         ELSE MergeWalk(hist, i + 1, Append(heads, i))

\* The system prompt the provider was constructed with.
SystemPrompt == <<"p">>

\* provider.create_completion(messages) up to the awaited client call:
\* sent is the messages argument the client receives, system its system
\* argument (None when the call passes none), hist the caller's list
\* afterwards.  ClaudeProvider passes `extracted_system_prompt or
\* self.system_prompt`, and `or` takes the configured prompt for None and
\* for ''.  OpenAIProvider passes the list on as it is.
create_completion_request(provider, messages) ==
    IF provider = "claude"
    THEN LET w == MergeWalk(messages, 1, <<>>)
             extracted_system_prompt == extract_system_prompt(messages).system_prompt
         IN  [sent |-> [k \in 1..Len(w.heads) |-> w.hist[w.heads[k]]], hist |-> w.hist,
              system |-> IF extracted_system_prompt.none
                              \/ extracted_system_prompt.text = <<>>
                         THEN Prompt(SystemPrompt) ELSE extracted_system_prompt]
    ELSE [sent |-> messages, hist |-> messages, system |-> NoPrompt]

\* ------------------------------------------------------------ configuration
\* AIHelper(config, persistence, provider): the config keys the core reads,
\* the port implementation and the provider variant.  summariser is "shipped"
\* for AIHelper.__summarise as it is in the source (returns ""), and
\* "returns" / "raises" for a stubbed summariser that returns a summary or
\* raises, the two outcomes the try/except around it distinguishes.
Config(provider, persistence, summariser, model, max_tokens, max_history_size) ==
    [provider |-> provider, persistence |-> persistence, summariser |-> summariser,
     model |-> model, max_tokens |-> max_tokens, max_history_size |-> max_history_size,
     max_conversation_age_minutes |-> 1]

Configs ==
    { Config("openai", "json", "shipped", "gpt-3.5-turbo", 1200, 2),
      Config("claude", "json", "returns", "gpt-4", 1200, 2),
      Config("openai", "json", "raises", "gpt-4", 1200, 2),
      Config("claude", "json", "raises", "gpt-4o", 1200, 3),
      Config("openai", "json", "raises", "gpt-3.5-turbo", 1200, 0),
      Config("openai", "firebase", "returns", "gpt-3.5-turbo", 4081, 3),
      Config("openai", "noop", "shipped", "gpt-4", 1200, 2),
      Config("openai", "json", "shipped", "claude-3-5-sonnet-20240620", 1200, 2) }

\* ------------------------------------------------------------------- state
VARIABLES
    cfg,           \* the configuration the AIHelper was constructed with
    conv,          \* AIHelper.conv: chat_id -> ChatHistory (present = key exists)
    last_updated,  \* AIHelper.last_updated: chat_id -> timestamp, held as the
                   \* minutes elapsed since it (now - last_updated[chat_id]),
                   \* NoTime = no key
    store,         \* what the persistence port holds for each chat
    task,          \* the turns: each a get_chat_response coroutine
    was_reset,     \* chat_id -> reset_conversation was the last call on the chat
    turns,         \* number of turns started so far
    lab,           \* one call of a ChatHistory / port operation on its own:
                   \* the arguments and what the call returned and left
    restarted      \* the process was restarted: what it held in memory is
                   \* gone, what the port holds is kept

vars == <<cfg, conv, last_updated, store, task, was_reset, turns, lab, restarted>>

NoTime == -1

\* No call made: X is the list the ChatHistory holds (the first sequence
\* saved, for the port), op the operation called, n / arg / kind / Y its
\* arguments, out / p / loaded what it returned, after the list the
\* ChatHistory holds afterwards, again / again_p what the operation returns
\* when applied to its own output, raised whether the call raised, tokens
\* the number a count of X returned; for a call on the registry, present
\* whether the chat had an entry, constructed / reads the history objects
\* constructed and the loads made from the port during the call.
NoLab ==
    [op |-> "none", X |-> <<>>, Y |-> <<>>, n |-> 0, arg |-> <<>>, kind |-> "none",
     out |-> <<>>, p |-> NoPrompt, after |-> <<>>, again |-> <<>>, again_p |-> NoPrompt,
     loaded |-> [none |-> FALSE, messages |-> <<>>], raised |-> FALSE,
     tokens |-> 0, present |-> FALSE, constructed |-> 0, reads |-> 0]
NoEntry == [present |-> FALSE, h |-> History(FALSE, <<>>)]
Entry(h) == [present |-> TRUE, h |-> h]

\* A turn's record.  pc is where the coroutine is: "idle" (none started),
\* "backend" (awaiting the client call), "sleep" (in the retry wait),
\* "complete" (returned), "failed" (raised).  The other fields record what
\* the turn did: attempt = runs of __common_get_chat_response so far,
\* calls = create_completion invocations, adds = user messages appended,
\* stale / loaded = whether the entry was stale when the turn started and
\* whether a ChatHistory was constructed (loaded from the port) for it,
\* H0 = the chat's history when the turn started, synced0 = whether the port
\* held that same sequence, appended = the history right after the last
\* attempt's append, sized / breached = the size check ran / found a threshold
\* exceeded, compaction = what the last attempt did about it, compacted = some
\* attempt compacted, summary = what the summariser returned, dispatched = the
\* list last handed to create_completion, sent = what the provider passed to
\* its client, reply / usage = the return value, signal = what the client call
\* raised last, error = what get_chat_response raised: the exception itself, or
\* "localized_invalid" / "localized_error" for the wrapped message,
\* save_failed = a save through the port raised during the turn.
\* The record of a finished turn is kept until the next operation on its chat
\* (or the next turn in its slot), so that conv and store are then still the
\* state the turn left.
IdleTask ==
    [pc |-> "idle", chat |-> 0, query |-> <<>>, attempt |-> 0, calls |-> 0, adds |-> 0,
     stale |-> FALSE, loaded |-> FALSE, H0 |-> <<>>, synced0 |-> FALSE, appended |-> <<>>,
     sized |-> FALSE, breached |-> FALSE, compaction |-> "none", compacted |-> FALSE,
     summary |-> <<>>, dispatched |-> <<>>, sent |-> <<>>,
     reply |-> <<>>, usage |-> 0, signal |-> "none", error |-> "none",
     save_failed |-> FALSE]

InFlight(t) == task[t].pc \in {"backend", "sleep"}
NoneInFlight == \A t \in Tasks : ~InFlight(t)

\* The slot a new coroutine takes, and the records a new operation on chat c
\* supersedes.
FreeSlot(t) == ~InFlight(t) /\ \A u \in Tasks : ~InFlight(u) => t <= u
Retire(c) ==
    [u \in Tasks |-> IF task[u].chat = c /\ ~InFlight(u) THEN IdleTask ELSE task[u]]

\* AIHelper.__max_age_reached
\* (last_updated < now - max_age, i.e. now - last_updated > max_age).
max_age_reached(c) ==
    IF last_updated[c] = NoTime THEN FALSE
    ELSE last_updated[c] > cfg.max_conversation_age_minutes

\* AIHelper.init_conversation: constructs a ChatHistory only for a missing key.
init_conversation(e, st) ==
    IF ~e.present THEN Entry(NewChatHistory(cfg.persistence, st)) ELSE e

\* Lines 151-153: the registry entry the turn works on, and whether a
\* ChatHistory was constructed (and so loaded from the port) for it.
resolve(c) ==
    LET e == IF ~conv[c].present \/ max_age_reached(c)
             THEN init_conversation(conv[c], store[c]) ELSE conv[c]
    IN  [e |-> e, constructed |-> (e # conv[c])]

\* AIHelper.reset_conversation
reset_conversation(e, st) ==
    LET e1 == IF ~e.present THEN Entry(NewChatHistory(cfg.persistence, st)) ELSE e
        r == clear(cfg.persistence, e1.h, st)
    IN  [e |-> Entry(r.h), st |-> r.st]

\* AIHelper.__summarise: "" in the source; a stub returns s or raises.
summarise(s) ==
    CASE cfg.summariser = "shipped" -> [raised |-> FALSE, summary |-> <<>>]
      [] cfg.summariser = "returns" -> [raised |-> FALSE, summary |-> s]
      [] cfg.summariser = "raises" -> [raised |-> TRUE, summary |-> <<>>]

\* What the port would return for the chat now, as a sequence (<<>> also for
\* the no-op port's None).
Persisted(c) == load_conversation(cfg.persistence, store[c]).messages
PersistedIsNone(c) == load_conversation(cfg.persistence, store[c]).none

\* A compaction whose fallback saves what trim left.
compact_saving_trim(h, st, q, s) ==
    LET sm == summarise(s)
        r == reset_conversation(Entry(h), st)
        a2 == add(cfg.persistence, r.e.h, r.st, get_ai_role, sm.summary)
        a3 == add(cfg.persistence, a2.h, a2.st, get_human_role, q)
        trimmed == trim(h, cfg.max_history_size)
    IN  IF sm.raised
        THEN [h |-> trimmed, st |-> save_conversation(cfg.persistence, st, trimmed.messages),
              how |-> "trim", summary |-> <<>>]
        ELSE [h |-> a3.h, st |-> a3.st, how |-> "summary", summary |-> sm.summary]

\* --------------------------------------------------------------- the turn
\* Lines 165-175: the compaction of history h (store st) for query q, with s
\* the summary a stubbed summariser would return.
compact(h, st, q, s) ==
    LET sm == summarise(s)
        r == reset_conversation(Entry(h), st)
        a2 == add(cfg.persistence, r.e.h, r.st, get_ai_role, sm.summary)
        a3 == add(cfg.persistence, a2.h, a2.st, get_human_role, q)
    IN  IF sm.raised
        THEN [h |-> trim(h, cfg.max_history_size), st |-> st, how |-> "trim", summary |-> <<>>]
        ELSE [h |-> a3.h, st |-> a3.st, how |-> "summary", summary |-> sm.summary]

\* One run of __common_get_chat_response (lines 149-187) for turn record r on
\* chat c, up to the awaited client call or to the exception raised before
\* it.  The result gives the chat's registry entry, the port's store and the
\* turn's record afterwards.
Attempt(r, c, s) ==
    LET q == r.query
        e1 == resolve(c).e
        a1 == add(cfg.persistence, e1.h, store[c], get_human_role, q)
        sized == KnownModel(cfg.model)
        breached == exceeded_max_tokens(a1.h.messages, cfg.model, cfg.max_tokens)
                      \/ exceeded_max_history_size(a1.h.messages, cfg.max_history_size)
        cp == IF breached THEN compact(a1.h, a1.st, q, s)
              ELSE [h |-> a1.h, st |-> a1.st, how |-> "none", summary |-> <<>>]
        req == create_completion_request(cfg.provider, cp.h.messages)
    IN  IF e1.h.none
        THEN \* self.messages.append on None: caught by `except Exception`
             [e |-> e1, st |-> store[c],
              r |-> [r EXCEPT !.pc = "failed", !.error = "localized_error"]]
        ELSE IF ~sized
        THEN \* __count_tokens raises for a model of no known family
             [e |-> Entry(a1.h), st |-> a1.st,
              r |-> [r EXCEPT !.pc = "failed", !.error = "localized_error", !.adds = @ + 1,
                              !.appended = a1.h.messages]]
        ELSE [e |-> Entry(History(FALSE, req.hist)), st |-> cp.st,
              r |-> [r EXCEPT !.pc = "backend", !.adds = @ + 1, !.calls = @ + 1,
                              !.appended = a1.h.messages, !.sized = TRUE,
                              !.breached = breached, !.compaction = cp.how,
                              !.compacted = @ \/ breached, !.summary = cp.summary,
                              !.dispatched = cp.h.messages, !.sent = req.sent]]

\* The transport calls get_chat_response(chat_id, query): the first run of
\* __common_get_chat_response.
StartTurn(t, c, q, s) ==
    /\ turns < MaxTurns
    /\ FreeSlot(t)
    /\ Len(conv[c].h.messages) <= MaxLen
    /\ \A i \in 1..Len(conv[c].h.messages) : Len(conv[c].h.messages[i].content) <= MaxContent
    /\ LET e1 == resolve(c).e
           r0 == [IdleTask EXCEPT !.chat = c, !.query = q, !.attempt = 1,
                                  !.stale = conv[c].present /\ max_age_reached(c),
                                  !.loaded = resolve(c).constructed,
                                  !.H0 = e1.h.messages,
                                  !.synced0 = (~e1.h.none /\ ~PersistedIsNone(c)
                                               /\ Persisted(c) = e1.h.messages)]
       IN  \E a \in {Attempt(r0, c, s)} :
             /\ conv' = [conv EXCEPT ![c] = a.e]
             /\ store' = [store EXCEPT ![c] = a.st]
             /\ last_updated' = [last_updated EXCEPT ![c] = 0]
             /\ task' = [Retire(c) EXCEPT ![t] = a.r]
    /\ was_reset' = [was_reset EXCEPT ![c] = FALSE]
    /\ turns' = turns + 1
    /\ UNCHANGED <<cfg, lab, restarted>>

\* The retry decorator's sleep is over: __common_get_chat_response runs again.
RetryWake(t, s) ==
    /\ task[t].pc = "sleep"
    /\ LET c == task[t].chat
       IN  \E a \in {Attempt([task[t] EXCEPT !.attempt = @ + 1], c, s)} :
             /\ conv' = [conv EXCEPT ![c] = a.e]
             /\ store' = [store EXCEPT ![c] = a.st]
             /\ last_updated' = [last_updated EXCEPT ![c] = 0]
             /\ task' = [task EXCEPT ![t] = a.r]
    /\ UNCHANGED <<cfg, was_reset, turns, lab, restarted>>

\* The client call returns: get_chat_response (lines 130-134) appends the
\* answer under the AI role and returns (answer, total_tokens).
BackendReplies(t, answer, total_tokens) ==
    /\ task[t].pc = "backend"
    /\ LET c == task[t].chat
           a == add(cfg.persistence, conv[c].h, store[c], get_ai_role, answer)
       IN  /\ conv' = [conv EXCEPT ![c] = Entry(a.h)]
           /\ store' = [store EXCEPT ![c] = a.st]
           /\ task' = [task EXCEPT ![t] = [@ EXCEPT !.pc = "complete", !.reply = answer,
                                                    !.usage = total_tokens,
                                                    !.signal = "none"]]
    /\ UNCHANGED <<cfg, last_updated, was_reset, turns, lab, restarted>>

\* The retry decorator without its stop: a rate limit is always retried.
on_exception_always_retries(r, exc) ==
    IF exc = "openai.RateLimitError"
    THEN [r EXCEPT !.pc = "sleep", !.signal = exc]
    ELSE IF exc = "openai.BadRequestError"
    THEN [r EXCEPT !.pc = "failed", !.signal = exc, !.error = "localized_invalid"]
    ELSE [r EXCEPT !.pc = "failed", !.signal = exc, !.error = "localized_error"]

\* The client call raises exc.  The retry decorator retries
\* openai.RateLimitError after the fixed wait while attempts are left and
\* re-raises it as it is after the last one; openai.BadRequestError and every
\* other exception are wrapped into a localized message and not retried.
on_exception(r, exc) ==
    IF exc = "openai.RateLimitError"
    THEN IF r.attempt < MaxAttempts
         THEN [r EXCEPT !.pc = "sleep", !.signal = exc]
         ELSE [r EXCEPT !.pc = "failed", !.signal = exc, !.error = exc]
    ELSE IF exc = "openai.BadRequestError"
    THEN [r EXCEPT !.pc = "failed", !.signal = exc, !.error = "localized_invalid"]
    ELSE [r EXCEPT !.pc = "failed", !.signal = exc, !.error = "localized_error"]

\* A client error that takes the turn's user message back out of the
\* history and of the port.
BackendRaisesRollingBack(t, exc) ==
    /\ task[t].pc = "backend"
    /\ LET c == task[t].chat
           kept == SubSeq(conv[c].h.messages, 1, Len(conv[c].h.messages) - 1)
       IN  /\ conv' = [conv EXCEPT ![c] = Entry(History(FALSE, kept))]
           /\ store' = [store EXCEPT ![c] = save_conversation(cfg.persistence, store[c], kept)]
    /\ task' = [task EXCEPT ![t] = on_exception(task[t], exc)]
    /\ UNCHANGED <<cfg, last_updated, was_reset, turns, lab, restarted>>

BackendRaises(t, exc) ==
    /\ task[t].pc = "backend"
    /\ task' = [task EXCEPT ![t] = on_exception(task[t], exc)]
    /\ UNCHANGED <<cfg, conv, last_updated, store, was_reset, turns, lab, restarted>>

\* A /reset that replaces every chat's entry, not only chat c's.
ResetEveryChat(c) ==
    /\ LET r == reset_conversation(conv[c], store[c])
       IN  /\ conv' = [b \in Chats |-> r.e]
           /\ store' = [b \in Chats |-> r.st]
    /\ task' = Retire(c)
    /\ was_reset' = [was_reset EXCEPT ![c] = TRUE]
    /\ UNCHANGED <<cfg, last_updated, turns, lab, restarted>>

\* The transport's /reset: AIHelper.reset_conversation(chat_id).
Reset(c) ==
    /\ LET r == reset_conversation(conv[c], store[c])
       IN  /\ conv' = [conv EXCEPT ![c] = r.e]
           /\ store' = [store EXCEPT ![c] = r.st]
    /\ task' = Retire(c)
    /\ was_reset' = [was_reset EXCEPT ![c] = TRUE]
    /\ UNCHANGED <<cfg, last_updated, turns, lab, restarted>>

\* A minute passes.  Elapsed times beyond max_conversation_age_minutes + 1
\* are not told apart: __max_age_reached answers the same for all of them.
Tick ==
    /\ \E c \in Chats : last_updated[c] # NoTime
                         /\ last_updated[c] <= cfg.max_conversation_age_minutes
    /\ last_updated' = [c \in Chats |->
                          IF last_updated[c] # NoTime
                               /\ last_updated[c] <= cfg.max_conversation_age_minutes
                          THEN last_updated[c] + 1 ELSE last_updated[c]]
    /\ UNCHANGED <<cfg, conv, store, task, was_reset, turns, lab, restarted>>

Init ==
    /\ cfg \in Configs
    /\ conv = [c \in Chats |-> NoEntry]
    /\ last_updated = [c \in Chats |-> NoTime]
    /\ store = [c \in Chats |-> NoFile]
    /\ task = [t \in Tasks |-> IdleTask]
    /\ was_reset = [c \in Chats |-> FALSE]
    /\ turns = 0
    /\ lab = NoLab
    /\ restarted = FALSE

Next ==
    \/ \E t \in Tasks, c \in Chats, q \in Queries, s \in Summaries :
           NoneInFlight /\ (turns = 0 => q = FirstQuery) /\ StartTurn(t, c, q, s)
    \/ \E t \in Tasks, s \in Summaries : RetryWake(t, s)
    \/ \E t \in Tasks, answer \in Replies, total_tokens \in Usages : BackendReplies(t, answer, total_tokens)
    \/ \E t \in Tasks, exc \in Signals(cfg.provider) : BackendRaises(t, exc)
    \/ \E c \in Chats : NoneInFlight /\ Reset(c)
    \/ Tick

\* The core used as its contract states it: the transport makes one call
\* (a turn or a reset) at a time; time passes while a turn is suspended.
Spec == Init /\ [][Next]_vars

\* --------------------------------------------------------------- progress
\* The awaited client call of turn t returns, with a reply or an exception,
\* and the retry decorator's wait of turn t ends.
BackendReturns(t) ==
    \/ \E answer \in Replies, total_tokens \in Usages : BackendReplies(t, answer, total_tokens)
    \/ \E exc \in Signals(cfg.provider) : BackendRaises(t, exc)
SleepReturns(t) == \E s \in Summaries : RetryWake(t, s)

\* The configurations progress is followed with: both providers and the
\* three summarisers, on the hosted store (which keeps the sequences as they
\* are; a turn's progress does not depend on what the port does with them).
LiveConfigs ==
    { Config("openai", "firebase", "shipped", "gpt-3.5-turbo", 1200, 2),
      Config("openai", "firebase", "returns", "gpt-3.5-turbo", 4081, 3),
      Config("openai", "firebase", "raises", "gpt-4", 1200, 2),
      Config("claude", "firebase", "returns", "gpt-4", 1200, 2) }

InitLive ==
    /\ cfg \in LiveConfigs
    /\ conv = [c \in Chats |-> NoEntry]
    /\ last_updated = [c \in Chats |-> NoTime]
    /\ store = [c \in Chats |-> NoFile]
    /\ task = [t \in Tasks |-> IdleTask]
    /\ was_reset = [c \in Chats |-> FALSE]
    /\ turns = 0
    /\ lab = NoLab
    /\ restarted = FALSE

\* The core when every client call and every wait returns; the port's calls
\* are made inside the steps.
SpecLive ==
    /\ InitLive /\ [][Next]_vars
    /\ \A t \in Tasks : WF_vars(BackendReturns(t)) /\ WF_vars(SleepReturns(t))

\* ------------------------------------------- the transport as it is built
\* ChatGPTTelegramBot.run builds the application with
\* concurrent_updates(True): every update is handled in a task of its own,
\* so a message or a /reset is handled whenever it arrives, also while
\* turns are suspended at the client call or at the retry sleep.
NextTransport ==
    \/ \E t \in Tasks, c \in Chats, q \in Queries, s \in Summaries :
           (turns = 0 => q = FirstQuery) /\ StartTurn(t, c, q, s)
    \/ \E t \in Tasks, s \in Summaries : RetryWake(t, s)
    \/ \E t \in Tasks, answer \in Replies, total_tokens \in Usages : BackendReplies(t, answer, total_tokens)
    \/ \E t \in Tasks, exc \in Signals(cfg.provider) : BackendRaises(t, exc)
    \/ \E c \in Chats : Reset(c)

\* The configurations the transport is run with here, one per provider.
\* Time is not advanced: the elapsed minutes reach a turn only through
\* __max_age_reached, and init_conversation constructs nothing for a chat
\* whose key exists, whatever it answers.
TransportConfigs ==
    { Config("openai", "json", "shipped", "gpt-3.5-turbo", 1200, 2),
      Config("claude", "json", "returns", "gpt-4", 1200, 2) }

InitTransport ==
    /\ cfg \in TransportConfigs
    /\ conv = [c \in Chats |-> NoEntry]
    /\ last_updated = [c \in Chats |-> NoTime]
    /\ store = [c \in Chats |-> NoFile]
    /\ task = [t \in Tasks |-> IdleTask]
    /\ was_reset = [c \in Chats |-> FALSE]
    /\ turns = 0
    /\ lab = NoLab
    /\ restarted = FALSE

SpecTransport == InitTransport /\ [][NextTransport]_vars

\* ------------------------------------------------------------ a restart
\* The process ends and is started again: AIHelper.__init__ runs anew, so
\* the registry and last_updated are empty and every coroutine is gone; the
\* port's files and nodes stay.  One restart is followed.
Restart ==
    /\ ~restarted
    /\ turns > 0
    /\ conv' = [c \in Chats |-> NoEntry]
    /\ last_updated' = [c \in Chats |-> NoTime]
    /\ task' = [t \in Tasks |-> IdleTask]
    /\ was_reset' = [c \in Chats |-> FALSE]
    /\ restarted' = TRUE
    /\ UNCHANGED <<cfg, store, turns, lab>>

NextRestart ==
    \/ Next
    \/ Restart

SpecRestart == Init /\ [][NextRestart]_vars

\* ------------------------------------------------- after a failed turn
\* The configurations the turn after a failed one is followed with: a history
\* bound of 1, which the second message of a chat exceeds, with a summariser
\* that returns and one that raises, and bounds that two messages stay
\* within, for both providers.
FailedTurnConfigs ==
    { Config("openai", "json", "returns", "gpt-3.5-turbo", 1200, 1),
      Config("openai", "firebase", "raises", "gpt-4", 1200, 1),
      Config("claude", "json", "returns", "gpt-4", 1200, 2),
      Config("openai", "firebase", "shipped", "gpt-3.5-turbo", 1200, 3) }

InitFailedTurn ==
    /\ cfg \in FailedTurnConfigs
    /\ conv = [c \in Chats |-> NoEntry]
    /\ last_updated = [c \in Chats |-> NoTime]
    /\ store = [c \in Chats |-> NoFile]
    /\ task = [t \in Tasks |-> IdleTask]
    /\ was_reset = [c \in Chats |-> FALSE]
    /\ turns = 0
    /\ lab = NoLab
    /\ restarted = FALSE

SpecFailedTurn == InitFailedTurn /\ [][Next]_vars

\* ------------------------------------------------------ a port that fails
\* The ports that store can raise from save_conversation (no disk space, no
\* connection); the no-op port's save cannot.  ChatHistory.add and clear
\* change self.messages before they call save, so the change stays in memory
\* when the save raises.
PortCanFail == cfg.persistence \in {"json", "firebase"}

\* The saves of one run of __common_get_chat_response, in order: 1 the user
\* message's add (line 158); then, inside the try of lines 166-175 when a
\* threshold is breached and the summariser returns, 2 the clear of
\* reset_conversation, 3 the summary's add, 4 the query's add.
SavePoints == 1..4

\* One run of __common_get_chat_response in which the k-th save raises.  The
\* first is caught by `except Exception` (line 186) and wrapped; the others
\* are caught by the except of line 173, which trims what self.messages
\* holds by then and lets the run go on to create_completion.
AttemptSaveFails(r, c, s, k) ==
    LET q == r.query
        e1 == resolve(c).e
        appended == Append(e1.h.messages, Msg(get_human_role, q))
        a1 == add(cfg.persistence, e1.h, store[c], get_human_role, q)
        sm == summarise(s)
        r1 == reset_conversation(Entry(a1.h), a1.st)
        a2 == add(cfg.persistence, r1.e.h, r1.st, get_ai_role, sm.summary)
        left == CASE k = 2 -> [h |-> History(FALSE, <<>>), st |-> a1.st]
                  [] k = 3 -> [h |-> History(FALSE, <<Msg(get_ai_role, sm.summary)>>),
                               st |-> r1.st]
                  [] OTHER -> [h |-> History(FALSE, <<Msg(get_ai_role, sm.summary),
                                                      Msg(get_human_role, q)>>),
                               st |-> a2.st]
        trimmed == trim(left.h, cfg.max_history_size)
        req == create_completion_request(cfg.provider, trimmed.messages)
    IN  IF k = 1
        THEN [e |-> Entry(History(FALSE, appended)), st |-> store[c],
              r |-> [r EXCEPT !.pc = "failed", !.error = "localized_error", !.adds = @ + 1,
                              !.appended = appended, !.save_failed = TRUE]]
        ELSE [e |-> Entry(History(FALSE, req.hist)), st |-> left.st,
              r |-> [r EXCEPT !.pc = "backend", !.adds = @ + 1, !.calls = @ + 1,
                              !.appended = a1.h.messages, !.sized = TRUE,
                              !.breached = TRUE, !.compaction = "trim",
                              !.compacted = TRUE, !.summary = sm.summary,
                              !.dispatched = trimmed.messages, !.sent = req.sent,
                              !.save_failed = TRUE]]

\* Whether the k-th save is reached by a run on chat c with query q.
SaveReached(c, q, k) ==
    LET e1 == resolve(c).e
        appended == Append(e1.h.messages, Msg(get_human_role, q))
    IN  /\ PortCanFail /\ ~e1.h.none
        /\ k > 1 => /\ KnownModel(cfg.model)
                    /\ exceeded_max_tokens(appended, cfg.model, cfg.max_tokens)
                         \/ exceeded_max_history_size(appended, cfg.max_history_size)
                    /\ cfg.summariser # "raises"

\* get_chat_response whose first run meets a failing save.
StartTurnSaveFails(t, c, q, s, k) ==
    /\ turns < MaxTurns
    /\ FreeSlot(t)
    /\ Len(conv[c].h.messages) <= MaxLen
    /\ \A i \in 1..Len(conv[c].h.messages) : Len(conv[c].h.messages[i].content) <= MaxContent
    /\ SaveReached(c, q, k)
    /\ LET e1 == resolve(c).e
           r0 == [IdleTask EXCEPT !.chat = c, !.query = q, !.attempt = 1,
                                  !.stale = conv[c].present /\ max_age_reached(c),
                                  !.loaded = resolve(c).constructed,
                                  !.H0 = e1.h.messages,
                                  !.synced0 = (~e1.h.none /\ ~PersistedIsNone(c)
                                               /\ Persisted(c) = e1.h.messages)]
       IN  \E a \in {AttemptSaveFails(r0, c, s, k)} :
             /\ conv' = [conv EXCEPT ![c] = a.e]
             /\ store' = [store EXCEPT ![c] = a.st]
             /\ last_updated' = [last_updated EXCEPT ![c] = 0]
             /\ task' = [Retire(c) EXCEPT ![t] = a.r]
    /\ was_reset' = [was_reset EXCEPT ![c] = FALSE]
    /\ turns' = turns + 1
    /\ UNCHANGED <<cfg, lab, restarted>>

\* A retried run that meets a failing save.
RetryWakeSaveFails(t, s, k) ==
    /\ task[t].pc = "sleep"
    /\ SaveReached(task[t].chat, task[t].query, k)
    /\ LET c == task[t].chat
       IN  \E a \in {AttemptSaveFails([task[t] EXCEPT !.attempt = @ + 1], c, s, k)} :
             /\ conv' = [conv EXCEPT ![c] = a.e]
             /\ store' = [store EXCEPT ![c] = a.st]
             /\ last_updated' = [last_updated EXCEPT ![c] = 0]
             /\ task' = [task EXCEPT ![t] = a.r]
    /\ UNCHANGED <<cfg, was_reset, turns, lab, restarted>>

\* The client call returns and the save of the answer's add (line 133)
\* raises: nothing catches it in get_chat_response, the caller gets the
\* port's exception and no reply.
BackendRepliesSaveFails(t, answer) ==
    /\ task[t].pc = "backend"
    /\ PortCanFail
    /\ LET c == task[t].chat
       IN  /\ conv' = [conv EXCEPT ![c] =
                          Entry(History(FALSE, Append(conv[c].h.messages,
                                                      Msg(get_ai_role, answer))))]
           /\ task' = [task EXCEPT ![t] = [@ EXCEPT !.pc = "failed", !.signal = "none",
                                                    !.error = "port_exception",
                                                    !.save_failed = TRUE]]
    /\ UNCHANGED <<cfg, last_updated, store, was_reset, turns, lab, restarted>>

\* reset_conversation whose clear meets a failing save: self.messages is
\* already [], the port keeps what it had, the exception reaches the caller.
ResetSaveFails(c) ==
    /\ PortCanFail
    /\ conv' = [conv EXCEPT ![c] = Entry(History(FALSE, <<>>))]
    /\ task' = Retire(c)
    /\ was_reset' = [was_reset EXCEPT ![c] = FALSE]
    /\ UNCHANGED <<cfg, last_updated, store, turns, lab, restarted>>

\* The core on a port whose saves can fail.
NextPortFails ==
    \/ Next
    \/ \E t \in Tasks, c \in Chats, q \in Queries, s \in Summaries, k \in SavePoints :
           NoneInFlight /\ (turns = 0 => q = FirstQuery) /\ StartTurnSaveFails(t, c, q, s, k)
    \/ \E t \in Tasks, s \in Summaries, k \in SavePoints : RetryWakeSaveFails(t, s, k)
    \/ \E t \in Tasks, answer \in Replies : BackendRepliesSaveFails(t, answer)
    \/ \E c \in Chats : NoneInFlight /\ ResetSaveFails(c)

SpecPortFails == Init /\ [][NextPortFails]_vars

\* ------------------------------------------------ the registry of main.py
\* main.py constructs the AIHelper of bot/ai_helper.py, whose registry is
\* self.histories: chat_id -> PersistentChatMessageHistory, with no
\* timestamps: an entry is never stale.  conv is that map here and store
\* the port.
\* PersistentChatMessageHistory(session_id, persistence): the class is
\* imported from history.py, which does not define it; as a Conversation
\* History is specified, it is lazily loaded from the port when created.
PersistentChatMessageHistory(kind, st) == NewChatHistory(kind, st)

\* What a call on the registry leaves in lab.
SessionCall(op, c, constructed, reads, h) ==
    [NoLab EXCEPT !.op = op, !.n = c, !.present = conv[c].present,
                  !.X = conv[c].h.messages, !.constructed = constructed,
                  !.reads = reads, !.out = h.messages]

\* get_session_history(session_id) (lines 45-48), called by the chain once
\* per get_chat_response: Python evaluates the default argument of
\* self.histories.get before the call, so a history is constructed, and
\* loaded, whether or not the chat has an entry; the entry is returned when
\* there is one, and the new object is dropped.
GetSessionHistory(c) ==
    /\ LET default == PersistentChatMessageHistory(cfg.persistence, store[c])
           h == IF conv[c].present THEN conv[c].h ELSE default
       IN  /\ conv' = [conv EXCEPT ![c] = Entry(h)]
           /\ lab' = SessionCall("get_session_history", c, 1, 1, h)
    /\ UNCHANGED <<cfg, last_updated, store, task, was_reset, turns, restarted>>

\* The chain adds a message of the turn to the history it resolved, which
\* saves itself.
SessionAddsMessage(c, m) ==
    /\ conv[c].present
    /\ Len(conv[c].h.messages) < MaxLen
    /\ LET a == add(cfg.persistence, conv[c].h, store[c], m.role, m.content)
       IN  /\ conv' = [conv EXCEPT ![c] = Entry(a.h)]
           /\ store' = [store EXCEPT ![c] = a.st]
    /\ lab' = [NoLab EXCEPT !.op = "add_message", !.n = c]
    /\ UNCHANGED <<cfg, last_updated, task, was_reset, turns, restarted>>

\* AIHelper.reset_conversation of ai_helper.py (lines 78-80): a new history
\* is constructed, and loaded, for the chat whatever the registry holds, and
\* then cleared.
SessionReset(c) ==
    /\ LET h == PersistentChatMessageHistory(cfg.persistence, store[c])
           r == clear(cfg.persistence, h, store[c])
       IN  /\ conv' = [conv EXCEPT ![c] = Entry(r.h)]
           /\ store' = [store EXCEPT ![c] = r.st]
           /\ lab' = SessionCall("reset_conversation", c, 1, 1, r.h)
    /\ UNCHANGED <<cfg, last_updated, task, was_reset, turns, restarted>>

\* The messages of a turn.
SessionMessages == {Msg("user", <<"a">>), Msg("assistant", <<"b">>)}

SessionConfigs ==
    { Config("claude", "json", "shipped", "gpt-4", 1200, 2),
      Config("claude", "firebase", "shipped", "gpt-4", 1200, 2) }

InitSessions ==
    /\ cfg \in SessionConfigs
    /\ conv = [c \in Chats |-> NoEntry]
    /\ last_updated = [c \in Chats |-> NoTime]
    /\ store = [c \in Chats |-> NoFile]
    /\ task = [t \in Tasks |-> IdleTask]
    /\ was_reset = [c \in Chats |-> FALSE]
    /\ turns = 0
    /\ lab = NoLab
    /\ restarted = FALSE

NextSessions ==
    \/ \E c \in Chats : GetSessionHistory(c)
    \/ \E c \in Chats, m \in SessionMessages : SessionAddsMessage(c, m)
    \/ \E c \in Chats : SessionReset(c)

SpecSessions == InitSessions /\ [][NextSessions]_vars

\* ------------------------------------------- the operations on their own
\* The histories the operations are called on: every sequence of at most
\* MaxSeq messages over three roles and contents that are empty, blank,
\* plain, and one with a character JSON escapes.
LabRoles == {"user", "assistant", "system"}
LabContents == {<<>>, <<" ">>, <<"a">>, <<"c", "\"">>}
LabMessages == {Msg(role, content) : role \in LabRoles, content \in LabContents}
LabHistories == UNION {[1..n -> LabMessages] : n \in 0..MaxSeq}

\* history.trim(n) on a ChatHistory holding lab.X.
ApplyTrim(n) ==
    /\ lab.op = "none"
    /\ lab' = [lab EXCEPT !.op = "trim", !.n = n,
                          !.out = trim(History(FALSE, lab.X), n).messages,
                          !.after = trim(History(FALSE, lab.X), n).messages]
    /\ UNCHANGED <<cfg, conv, last_updated, store, task, was_reset, turns, restarted>>

\* history.merge_consecutive_messages() on a ChatHistory holding lab.X, and
\* the same call made once more on the ChatHistory.
ApplyMerge ==
    /\ lab.op = "none"
    /\ lab' = [lab EXCEPT !.op = "merge",
                          !.out = merge_consecutive_messages(lab.X).merged,
                          !.after = merge_consecutive_messages(lab.X).hist,
                          !.again = merge_consecutive_messages(
                                        merge_consecutive_messages(lab.X).hist).merged]
    /\ UNCHANGED <<cfg, conv, last_updated, store, task, was_reset, turns, restarted>>

\* history.extract_system_prompt() on a ChatHistory holding lab.X, and the
\* same function applied to the list it returned.
ApplyExtract ==
    /\ lab.op = "none"
    /\ LET r == extract_system_prompt(lab.X)
           r2 == extract_system_prompt(r.remaining)
       IN  lab' = [lab EXCEPT !.op = "extract", !.out = r.remaining,
                              !.p = r.system_prompt, !.after = r.hist,
                              !.again = r2.remaining, !.again_p = r2.system_prompt]
    /\ UNCHANGED <<cfg, conv, last_updated, store, task, was_reset, turns, restarted>>

\* The placeholders replace_empty_messages is called with ('...' by default).
Placeholders == {<<".", ".", ".">>}

\* history.replace_empty_messages(replacement) on a ChatHistory holding lab.X.
ApplyReplace(replacement) ==
    /\ lab.op = "none"
    /\ lab' = [lab EXCEPT !.op = "replace", !.arg = replacement,
                          !.out = replace_empty_messages(lab.X, replacement),
                          !.after = lab.X]
    /\ UNCHANGED <<cfg, conv, last_updated, store, task, was_reset, turns, restarted>>

\* The port implementations, and the sequences saved second.
PortKinds == {"json", "firebase", "noop"}
LabSaved ==
    { <<>>,
      <<Msg("user", <<"a", NL, Backslash>>)>>,
      <<Msg("assistant", <<>>), Msg("user", <<"c", Quote>>)>> }

\* port.save_conversation(id, X); port.save_conversation(id, Y);
\* port.load_conversation(id) on a port of the given kind that held nothing
\* for the id.
ApplySaveSaveLoad(kind, Y) ==
    /\ lab.op = "none"
    /\ LET st1 == save_conversation(kind, NoFile, lab.X)
           st2 == save_conversation(kind, st1, Y)
       IN  lab' = [lab EXCEPT !.op = "save_save_load", !.kind = kind, !.Y = Y,
                              !.loaded = load_conversation(kind, st2)]
    /\ UNCHANGED <<cfg, conv, last_updated, store, task, was_reset, turns, restarted>>

\* ChatHistory(chat_id, persistence) for an id the port of the given kind
\* holds nothing for: what load() leaves in self.messages.
ApplyLoadNew(kind) ==
    /\ lab.op = "none"
    /\ lab' = [lab EXCEPT !.op = "load_new", !.kind = kind,
                          !.loaded = NewChatHistory(kind, NoFile)]
    /\ UNCHANGED <<cfg, conv, last_updated, store, task, was_reset, turns, restarted>>

\* The provider variants.
Providers == {"openai", "claude"}

\* provider.create_completion(history.get_messages()) on a ChatHistory
\* holding lab.X, up to the client call.
ApplyCreateCompletion(provider) ==
    /\ lab.op = "none"
    /\ LET req == create_completion_request(provider, lab.X)
       IN  lab' = [lab EXCEPT !.op = "create_completion", !.kind = provider,
                              !.out = req.sent, !.p = req.system, !.after = req.hist]
    /\ UNCHANGED <<cfg, conv, last_updated, store, task, was_reset, turns, restarted>>

\* The messages added in the calls below.
LabAdded == {Msg("user", <<"a">>), Msg("assistant", <<>>)}

\* history.add(role, content) whose save raises, on a ChatHistory holding
\* lab.X with a port of the given kind that holds lab.X for the chat too.
ApplyAddSaveFails(kind, m) ==
    /\ lab.op = "none"
    /\ LET st == save_conversation(kind, NoFile, lab.X)
           r == add_save_raises(kind, History(FALSE, lab.X), st, m.role, m.content)
       IN  lab' = [lab EXCEPT !.op = "add_save_fails", !.kind = kind, !.Y = <<m>>,
                              !.after = r.h.messages, !.raised = r.raised,
                              !.loaded = load_conversation(kind, r.st)]
    /\ UNCHANGED <<cfg, conv, last_updated, store, task, was_reset, turns, restarted>>

\* The models the count is made for: one of each overhead's families.
TokenModels == {"gpt-3.5-turbo", "gpt-3.5-turbo-16k", "gpt-4", "gpt-4o"}

\* __count_tokens(history.get_messages()) for the given model on a
\* ChatHistory holding lab.X.
ApplyCountTokens(model) ==
    /\ lab.op = "none"
    /\ lab' = [lab EXCEPT !.op = "count_tokens", !.kind = model,
                          !.tokens = count_tokens(lab.X, model),
                          !.after = lab.X]
    /\ UNCHANGED <<cfg, conv, last_updated, store, task, was_reset, turns, restarted>>

InitLab ==
    /\ cfg = Config("openai", "json", "shipped", "gpt-3.5-turbo", 1200, 2)
    /\ conv = [c \in Chats |-> NoEntry]
    /\ last_updated = [c \in Chats |-> NoTime]
    /\ store = [c \in Chats |-> NoFile]
    /\ task = [t \in Tasks |-> IdleTask]
    /\ was_reset = [c \in Chats |-> FALSE]
    /\ turns = 0
    /\ lab \in {[NoLab EXCEPT !.X = x] : x \in LabHistories}
    /\ restarted = FALSE

NextLab ==
    \/ \E n \in 0..(MaxSeq + 1) : ApplyTrim(n)
    \/ ApplyMerge
    \/ ApplyExtract
    \/ \E replacement \in Placeholders : ApplyReplace(replacement)
    \/ \E kind \in PortKinds, Y \in LabSaved : ApplySaveSaveLoad(kind, Y)
    \/ \E kind \in PortKinds : ApplyLoadNew(kind)
    \/ \E provider \in Providers : ApplyCreateCompletion(provider)
    \/ \E kind \in PortKinds \ {"noop"}, m \in LabAdded : ApplyAddSaveFails(kind, m)
    \/ \E model \in TokenModels : ApplyCountTokens(model)

\* One operation of ChatHistory or of a port, called once on a history.
SpecLab == InitLab /\ [][NextLab]_vars

\* ================================================================ claims
\* The last n elements of s (all of s when it has no more than n).
LastN(s, n) == IF n >= Len(s) THEN s ELSE SubSeq(s, Len(s) - n + 1, Len(s))

Turn(t) == task[t]
Mem(c) == conv[c].h.messages

\* C1: a turn on a chat whose stored history is H (held both in memory and by
\* the port), with no threshold exceeded and the backend answering (r, t) on
\* the first attempt, returns (r, t) and leaves the history and the persisted
\* sequence equal to H followed by [user q, assistant r].
C1_HappyPathTurn ==
    \A t \in Tasks :
        (Turn(t).pc = "complete" /\ Turn(t).attempt = 1 /\ Turn(t).synced0
            /\ Turn(t).sized /\ ~Turn(t).breached)
        => LET c == Turn(t).chat
               expected == Turn(t).H0 \o <<Msg("user", Turn(t).query),
                                           Msg("assistant", Turn(t).reply)>>
           IN  /\ Turn(t).reply \in Replies /\ Turn(t).usage \in Usages
               /\ Turn(t).error = "none"
               /\ Mem(c) = expected
               /\ ~PersistedIsNone(c) /\ Persisted(c) = expected

\* C2: create_completion is invoked at most 3 times in a turn; a turn that
\* ends after the backend's rate-limit error has made all 3 calls and raises
\* that error unmodified; a turn that ends with the backend's answer raises
\* nothing and returns it.
C2_RetryPolicy ==
    \A t \in Tasks :
        /\ Turn(t).calls <= 3
        /\ (Turn(t).pc = "complete" => Turn(t).error = "none" /\ Turn(t).reply \in Replies)
        /\ (Turn(t).pc = "failed" /\ Turn(t).signal \in RateLimitSignals
              => Turn(t).calls = 3 /\ Turn(t).error = Turn(t).signal)

\* C3: whatever the number of retries, a turn appends its user message once;
\* a successful turn without compaction grows the history by one user and
\* one assistant message.
C3_OneUserMessagePerTurn ==
    \A t \in Tasks :
        /\ Turn(t).adds <= 1
        /\ (Turn(t).pc = "complete" /\ ~Turn(t).compacted
              => Len(Mem(Turn(t).chat)) = Len(Turn(t).H0) + 2)

\* C4: for every chat with a live history, the port holds the sequence the
\* history holds in memory (stated for the ports that store: every state of
\* the model is one between two mutation calls).
C4_PersistenceConsistency ==
    \A c \in Chats :
        (conv[c].present /\ cfg.persistence # "noop")
        => ~conv[c].h.none /\ Persisted(c) = Mem(c)

\* C5: a turn that finds its chat's registry entry stale works on a fresh
\* ChatHistory, constructed for it and loaded from the port.
C5_SessionExpiry ==
    \A t \in Tasks : (Turn(t).pc # "idle" /\ Turn(t).stale) => Turn(t).loaded

\* C6: once the user message is appended and the history sized, compaction
\* is attempted exactly when estimated tokens + max output tokens exceed the
\* model's context, or the message count exceeds max_history_size (both
\* strictly); when neither does, the appended history is dispatched as it is.
C6_CompactionTrigger ==
    \A t \in Tasks :
        Turn(t).sized
        => LET over == count_tokens(Turn(t).appended, cfg.model) + cfg.max_tokens
                           > max_model_tokens(cfg.model)
               long == Len(Turn(t).appended) > cfg.max_history_size
           IN  /\ (Turn(t).compaction # "none") <=> (over \/ long)
               /\ (Turn(t).compaction = "none" => Turn(t).dispatched = Turn(t).appended)

\* A first attempt compacts on the token threshold alone: the message count
\* is within max_history_size.
C6_TokenBreachOnly ==
    \E t \in Tasks :
        /\ Turn(t).pc = "backend" /\ Turn(t).attempt = 1
        /\ Turn(t).compaction # "none"
        /\ Len(Turn(t).appended) <= cfg.max_history_size

\* C7: when a threshold is breached and the summariser returns s, the
\* sequence dispatched, the history in memory and the persisted sequence at
\* dispatch time are all [assistant s, user q].
C7_SummaryCompaction ==
    \A t \in Tasks :
        (Turn(t).pc = "backend" /\ Turn(t).breached /\ Turn(t).compaction = "summary")
        => LET c == Turn(t).chat
               want == <<Msg("assistant", Turn(t).summary), Msg("user", Turn(t).query)>>
           IN  /\ Turn(t).dispatched = want
               /\ Mem(c) = want
               /\ ~PersistedIsNone(c) /\ Persisted(c) = want

\* C8: when a threshold is breached and the summariser raises, the turn
\* still reaches the backend call, and what it dispatches is the last
\* max_history_size messages of the history before compaction, for every
\* max_history_size >= 0.
C8_TrimFallback ==
    \A t \in Tasks :
        (Turn(t).sized /\ Turn(t).breached /\ cfg.summariser = "raises")
        => /\ Turn(t).compaction = "trim"
           /\ Turn(t).calls >= 1
           /\ Turn(t).dispatched = LastN(Turn(t).appended, cfg.max_history_size)
           /\ Len(Turn(t).dispatched) <= cfg.max_history_size

\* C9: with the summariser of the source, a threshold breach ends in the
\* trim(max_history_size) fallback: the history keeps its last messages and
\* is not cleared and replaced by a summary message.
C9_ShippedSummariser ==
    \A t \in Tasks :
        (Turn(t).sized /\ Turn(t).breached /\ cfg.summariser = "shipped")
        => /\ Turn(t).compaction = "trim"
           /\ Turn(t).dispatched = LastN(Turn(t).appended, cfg.max_history_size)

\* C10: after reset_conversation(c), and until the next turn on c, the chat
\* has a registry entry whose history is the empty sequence, and the port
\* holds the empty sequence for it.
C10_Reset ==
    \A c \in Chats :
        was_reset[c]
        => /\ conv[c].present /\ ~conv[c].h.none /\ Mem(c) = <<>>
           /\ ~PersistedIsNone(c) /\ Persisted(c) = <<>>

\* C11: every message of the sequence the provider hands to its client has
\* a content that is neither empty nor made of whitespace only.
C11_NoEmptyContentSent ==
    \A t \in Tasks :
        Turn(t).pc = "backend"
        => \A i \in 1..Len(Turn(t).sent) : ~IsBlank(Turn(t).sent[i].content)

\* C12: a turn whose client call raised a bad-request error or any error
\* other than the rate-limit one has ended with it: no further call (one
\* call in all when it was the first attempt), no assistant message in the
\* history, and the error raised is the localized invalid-request message
\* for a bad request and the localized generic one otherwise.
C12_NonRetryable ==
    \A t \in Tasks :
        (Turn(t).pc # "idle" /\ Turn(t).signal \in BadRequestSignals \cup {"Exception"})
        => LET c == Turn(t).chat
           IN  /\ Turn(t).pc = "failed"
               /\ Turn(t).calls = Turn(t).attempt
               /\ Len(Mem(c)) = Len(Turn(t).dispatched)
               /\ Mem(c) # <<>> /\ Mem(c)[Len(Mem(c))] = Msg("user", Turn(t).query)
               /\ Turn(t).error = IF Turn(t).signal \in BadRequestSignals
                                  THEN "localized_invalid" ELSE "localized_error"

\* C13: a turn in which a save through the port raised has raised too: it
\* is not suspended for a retry or a client call, and returns no reply.
C13_SaveFailureFailsTurn ==
    \A t \in Tasks :
        Turn(t).save_failed
        => Turn(t).pc = "failed" /\ Turn(t).error # "none" /\ Turn(t).reply = <<>>

\* C14: trim(n) on a history of length m leaves the last n messages in
\* their order when m > n (none when n = 0), and the history as it was when
\* m <= n.
C14_Trim ==
    lab.op = "trim"
    => lab.after = IF Len(lab.X) > lab.n
                   THEN SubSeq(lab.X, Len(lab.X) - lab.n + 1, Len(lab.X))
                   ELSE lab.X

\* The maximal runs of equal-role messages of s, as pairs <<first, last>>
\* of positions, in order.
RunStarts(s) == {i \in 1..Len(s) : i = 1 \/ s[i].role # s[i - 1].role}
RunEnd(s, i) == CHOOSE j \in i..Len(s) :
                    /\ \A k \in i..j : s[k].role = s[i].role
                    /\ j = Len(s) \/ s[j + 1].role # s[i].role
\* The contents of s[i..j] joined by sep.
RECURSIVE Joined(_, _, _, _)
Joined(s, i, j, sep) ==
    IF i > j THEN <<>>
    ELSE IF i = j THEN s[i].content
    ELSE s[i].content \o sep \o Joined(s, i + 1, j, sep)
\* The k-th smallest element of a set of numbers.
RECURSIVE Nth(_, _)
Nth(S, k) ==
    LET m == CHOOSE x \in S : \A y \in S : x <= y
    IN  IF k = 1 THEN m ELSE Nth(S \ {m}, k - 1)

\* C15: merge_consecutive_messages returns one message per maximal run of
\* equal-role messages, in run order, with the run's role and the run's
\* contents joined by one newline; no two adjacent output messages share a
\* role; the empty history gives the empty sequence.
C15_MergeRuns ==
    lab.op = "merge"
    => /\ Len(lab.out) = Cardinality(RunStarts(lab.X))
       /\ \A k \in 1..Len(lab.out) :
              LET i == Nth(RunStarts(lab.X), k)
              IN  /\ lab.out[k].role = lab.X[i].role
                  /\ lab.out[k].content = Joined(lab.X, i, RunEnd(lab.X, i), <<NL>>)
       /\ \A k \in 1..(Len(lab.out) - 1) : lab.out[k].role # lab.out[k + 1].role
       /\ (lab.X = <<>> => lab.out = <<>>)

\* A history with a run of three messages and another run was merged.
C15_MergedARunOfThree ==
    /\ lab.op = "merge" /\ Len(lab.X) = 3 /\ Len(lab.out) = 1
    /\ lab.X[1].content = <<"a">> /\ lab.X[2].content = <<>>
    /\ lab.X[3].content = <<"c", "\"">>

\* C16 as the specification words it: the contents of the output,
\* concatenated in order, are the contents of the input concatenated in
\* order.
C16_ContentIdentical ==
    (lab.op = "merge" /\ lab.X # <<>>)
    => Joined(lab.out, 1, Len(lab.out), <<>>) = Joined(lab.X, 1, Len(lab.X), <<>>)

\* C16: the contents of the output, concatenated in order, are the contents
\* of the input concatenated in order with one newline between every two
\* adjacent input messages of equal role.
RECURSIVE JoinedRunwise(_, _)
JoinedRunwise(s, i) ==
    IF i > Len(s) THEN <<>>
    ELSE IF i < Len(s) /\ s[i].role = s[i + 1].role
         THEN s[i].content \o <<NL>> \o JoinedRunwise(s, i + 1)
         ELSE s[i].content \o JoinedRunwise(s, i + 1)
C16_ContentPreservedUpToSeparators ==
    (lab.op = "merge" /\ lab.X # <<>>)
    => Joined(lab.out, 1, Len(lab.out), <<>>) = JoinedRunwise(lab.X, 1)

\* A run of two messages was merged next to a message of another role.
C16_MergedWithSeparator ==
    /\ lab.op = "merge" /\ Len(lab.X) = 3 /\ Len(lab.out) = 2
    /\ lab.out[1].content = <<"a", NL, "a">>

\* C17: extract_system_prompt returns the non-system messages in their
\* order, and the content of the last system message, or None when there is
\* none; the history is left as it was.
C17_ExtractSystemPrompt ==
    lab.op = "extract"
    => LET sys == {i \in 1..Len(lab.X) : lab.X[i].role = "system"}
           IsOther(m) == m.role # "system"
       IN  /\ lab.out = SelectSeq(lab.X, IsOther)
           /\ lab.p = IF sys = {} THEN NoPrompt
                      ELSE Prompt(lab.X[CHOOSE i \in sys : \A j \in sys : j <= i].content)
           /\ lab.after = lab.X

\* Two system messages of different content around a user message.
C17_TwoSystemMessages ==
    /\ lab.op = "extract" /\ Len(lab.X) = 3
    /\ lab.X[1].role = "system" /\ lab.X[2].role = "user" /\ lab.X[3].role = "system"
    /\ lab.X[1].content # lab.X[3].content
    /\ lab.p = Prompt(lab.X[3].content) /\ Len(lab.out) = 1

\* C18: extract_system_prompt applied to the non-system output of
\* extract_system_prompt(X) returns that same sequence and None.
C18_ExtractIdempotent ==
    lab.op = "extract" => lab.again = lab.out /\ lab.again_p = NoPrompt

\* The second extraction ran on the output of one that removed a system
\* message and kept others.
C18_ExtractedTwice ==
    /\ lab.op = "extract" /\ ~lab.p.none
    /\ lab.out # <<>> /\ Len(lab.out) < Len(lab.X) /\ lab.again = lab.out

\* C19 as the specification words it: the result has the length of the
\* history, every message keeps its role, and every message whose content is
\* not the empty string keeps its content, a whitespace-only one included.
C19_NonEmptyKept ==
    lab.op = "replace"
    => /\ Len(lab.out) = Len(lab.X)
       /\ \A i \in 1..Len(lab.X) :
              /\ lab.out[i].role = lab.X[i].role
              /\ lab.X[i].content # <<>> => lab.out[i].content = lab.X[i].content

\* C19: the result has the length of the history, every message keeps its
\* role, and every message whose content has a character that is not
\* whitespace keeps its content.
C19_NonBlankKept ==
    lab.op = "replace"
    => /\ Len(lab.out) = Len(lab.X)
       /\ \A i \in 1..Len(lab.X) :
              /\ lab.out[i].role = lab.X[i].role
              /\ (\E j \in 1..Len(lab.X[i].content) : lab.X[i].content[j] \notin Whitespace)
                     => lab.out[i].content = lab.X[i].content

\* A history with an empty, a blank and a plain content went through
\* replace_empty_messages.
C19_ReplacedMixedHistory ==
    /\ lab.op = "replace" /\ Len(lab.X) = 3
    /\ lab.X[1].content = <<>> /\ lab.X[2].content = <<" ">> /\ lab.X[3].content = <<"a">>
    /\ lab.out[1].content = lab.arg /\ lab.out[3].content = <<"a">>

\* C20: with every shipped port, saving X and then Y under an id and
\* loading the id returns Y, the empty sequence included.
C20_SaveSaveLoad ==
    lab.op = "save_save_load" => ~lab.loaded.none /\ lab.loaded.messages = lab.Y

\* C21: with every shipped port, a ChatHistory constructed for a chat id
\* that was never saved holds the empty sequence, not None.
C21_LoadNeverSaved ==
    lab.op = "load_new" => ~lab.loaded.none /\ lab.loaded.messages = <<>>

\* The positions of the system messages of a list.
SystemAt(s) == {i \in 1..Len(s) : s[i].role = "system"}

\* C22: for every input, the Claude variant sends no system message, no two
\* adjacent messages of equal role and no message with empty content, and
\* its system argument is the content of the input's last system message
\* when there is one, empty or not, and the configured prompt otherwise.
C22_ClaudeNormalization ==
    lab.op = "create_completion" /\ lab.kind = "claude" =>
        /\ \A i \in 1..Len(lab.out) : lab.out[i].role # "system"
        /\ \A i \in 1..(Len(lab.out) - 1) : lab.out[i].role # lab.out[i + 1].role
        /\ \A i \in 1..Len(lab.out) : lab.out[i].content # <<>>
        /\ lab.p = IF SystemAt(lab.X) = {} THEN Prompt(SystemPrompt)
                   ELSE Prompt(lab.X[Nth(SystemAt(lab.X), Cardinality(SystemAt(lab.X)))].content)

\* C23: for every input, the first message the OpenAI variant sends is a
\* system message carrying the configured prompt, and the messages after it
\* carry the roles of the input in order.
C23_OpenAINormalization ==
    lab.op = "create_completion" /\ lab.kind = "openai" =>
        /\ lab.out # <<>>
        /\ lab.out[1] = Msg("system", SystemPrompt)
        /\ Len(lab.out) = Len(lab.X) + 1
        /\ \A i \in 1..Len(lab.X) : lab.out[i + 1].role = lab.X[i].role

\* The turns suspended on chat c.
Suspended(c) == {t \in Tasks : InFlight(t) /\ Turn(t).chat = c}

\* C24: at any time at most one turn is in flight for a chat, and no reset
\* of a chat is handled while a turn of that chat is suspended at the client
\* call or at the retry sleep.
C24_PerChatSequential ==
    \A c \in Chats :
        /\ Cardinality(Suspended(c)) <= 1
        /\ was_reset[c] => Suspended(c) = {}

\* The operations on chat c: a turn's start, a retried run, the return of
\* its client call, and a reset.
OperationOn(c) ==
    \/ \E t \in Tasks, q \in Queries, s \in Summaries : StartTurn(t, c, q, s)
    \/ \E t \in Tasks, s \in Summaries : Turn(t).chat = c /\ RetryWake(t, s)
    \/ \E t \in Tasks, answer \in Replies, total_tokens \in Usages :
           Turn(t).chat = c /\ BackendReplies(t, answer, total_tokens)
    \/ \E t \in Tasks, exc \in Signals(cfg.provider) : Turn(t).chat = c /\ BackendRaises(t, exc)
    \/ Reset(c)

\* C25: under every interleaving of turns and resets, an operation on a
\* chat leaves the in-memory history, the persisted sequence and the
\* last-activity timestamp of every other chat as they were; each chat's
\* entries are then written by its own operations only, in their order.
C25_CrossChatIsolation ==
    [][\A c \in Chats : OperationOn(c) =>
           \A b \in Chats \ {c} : /\ conv'[b] = conv[b]
                                  /\ store'[b] = store[b]
                                  /\ last_updated'[b] = last_updated[b]]_vars

\* C25: turns of two chats are suspended together, each on a history of its
\* own chat.
C25_TwoChatsInterleaved ==
    \E t, u \in Tasks :
        /\ InFlight(t) /\ InFlight(u) /\ Turn(t).chat # Turn(u).chat
        /\ Mem(Turn(t).chat) # <<>> /\ Mem(Turn(u).chat) # <<>>
        /\ Mem(Turn(t).chat) # Mem(Turn(u).chat)

\* C26: after a restart, the history a chat's first turn starts from (the
\* one ChatHistory's constructor loaded) is a sequence, not None, and equal
\* to what the port holds for the chat: the last sequence saved, or the
\* empty sequence when nothing was saved.
C26_RestartRecovery ==
    restarted =>
        \A t \in Tasks :
            Turn(t).pc # "idle" /\ Turn(t).loaded => Turn(t).synced0

C28_TrimDoesNotPersist ==
    \A t \in Tasks :
        Turn(t).pc \in {"backend", "sleep", "failed"} /\ Turn(t).compaction = "trim" =>
            /\ ~PersistedIsNone(Turn(t).chat)
            /\ Persisted(Turn(t).chat) = Turn(t).appended
            /\ Turn(t).dispatched = PySliceLast(Turn(t).appended, cfg.max_history_size)

\* C28: a turn is suspended on a history that trim shortened in memory,
\* while the port holds the longer one.
C28_TrimmedInMemoryOnly ==
    \E t \in Tasks :
        /\ Turn(t).pc = "backend" /\ Turn(t).compaction = "trim"
        /\ Len(Turn(t).dispatched) < Len(Turn(t).appended)
        /\ Len(Persisted(Turn(t).chat)) = Len(Turn(t).appended)
        /\ Len(Mem(Turn(t).chat)) < Len(Persisted(Turn(t).chat))

\* C29: ChatHistory.merge_consecutive_messages and the Claude variant's
\* create_completion leave the messages of the history they are given as they
\* were, and merge_consecutive_messages called twice in a row returns the
\* same list both times.
C29_NormalizationNonMutating ==
    /\ lab.op = "merge" => lab.after = lab.X /\ lab.again = lab.out
    /\ lab.op = "create_completion" /\ lab.kind = "claude" => lab.after = lab.X

\* C30: a turn is never in a state other than those of its state machine
\* and never runs more than MaxAttempts times, and every suspended turn
\* eventually ends, with a reply returned or an error raised.
C30_TurnTerminates ==
    /\ [](\A t \in Tasks :
              /\ Turn(t).pc \in {"idle", "backend", "sleep", "complete", "failed"}
              /\ Turn(t).attempt <= MaxAttempts /\ Turn(t).calls <= MaxAttempts)
    /\ \A t \in Tasks : InFlight(t) ~> Turn(t).pc \in {"complete", "failed"}

\* C30: a turn ended after MaxAttempts runs, each met by a rate limit.
C30_RetriesExhausted ==
    \E t \in Tasks :
        /\ Turn(t).pc = "failed" /\ Turn(t).attempt = MaxAttempts
        /\ Turn(t).calls = MaxAttempts /\ Turn(t).error = "openai.RateLimitError"

\* The turn ended with what the client call raised.
FailedByBackend(t) == Turn(t).pc = "failed" /\ Turn(t).signal # "none"

EndsWithUser(messages, q) ==
    messages # <<>> /\ messages[Len(messages)] = Msg("user", q)

ConsecutiveUsers(messages) ==
    \E i \in 1..(Len(messages) - 1) :
        messages[i].role = "user" /\ messages[i + 1].role = "user"

\* The user message of a turn that the client call failed is the last
\* message of the chat's history, in memory and in the port.
UserMessageStays ==
    \A t \in Tasks :
        FailedByBackend(t) =>
            /\ EndsWithUser(Mem(Turn(t).chat), Turn(t).query)
            /\ ~PersistedIsNone(Turn(t).chat)
            /\ EndsWithUser(Persisted(Turn(t).chat), Turn(t).query)

\* This step is the first run of a turn of chat c in slot t, it reaches the
\* client call, and the call before it on the chat was a turn that the
\* client call failed.
NextTurnAfterFailure(t, c) ==
    /\ \E u \in Tasks : task[u].chat = c /\ FailedByBackend(u)
    /\ turns' = turns + 1
    /\ task'[t].chat = c /\ task'[t].attempt = 1 /\ task'[t].pc = "backend"

C32_ReplyPlacement ==
    [][\A t \in Tasks :
           task[t].pc = "backend" /\ task'[t].pc = "complete" =>
               LET m == conv'[task[t].chat].h.messages
               IN  /\ Len(m) >= 2
                   /\ m[Len(m)] = Msg("assistant", task'[t].reply)
                   /\ m[Len(m) - 1] = Msg("user", task[t].query)]_vars

\* C33: with a model of no known family no turn appends or saves a user
\* message: the model is refused when the AIHelper is constructed.
C33_UnknownModelAtConfiguration ==
    ~KnownModel(cfg.model) =>
        /\ \A t \in Tasks : Turn(t).adds = 0
        /\ \A c \in Chats : Mem(c) = <<>> /\ Persisted(c) = <<>>

\* The sum of a sequence of numbers.
RECURSIVE Total(_)
Total(ns) == IF ns = <<>> THEN 0 ELSE Head(ns) + Total(Tail(ns))

\* The per-message overhead of the model's family.
Overhead(model) == IF model \in GPT_3_MODELS \cup GPT_3_16K_MODELS THEN 4 ELSE 3

\* C34: the estimate for messages of a role and a text content is 3 plus, for
\* every message, the overhead of the model's family and the tokens of the
\* content, a function of the sequence and the model; the empty sequence
\* gives 3.
C34_TokenEstimate ==
    lab.op = "count_tokens" =>
        /\ lab.tokens = 3 + Total([i \in 1..Len(lab.X) |->
                                      Overhead(lab.kind) + EncodeLen(lab.X[i].content)])
        /\ lab.X = <<>> => lab.tokens = 3

\* C34, as the code has it: the tokens of every message's role label are
\* counted as well.
C34_TokenEstimateWithRoles ==
    lab.op = "count_tokens" =>
        /\ lab.tokens = 3 + Total([i \in 1..Len(lab.X) |->
                                      Overhead(lab.kind) + RoleTokens(lab.X[i].role)
                                        + EncodeLen(lab.X[i].content)])
        /\ lab.X = <<>> => lab.tokens = 3

\* C34: the count of [user "a", assistant ""] for a gpt-3.5 model is
\* 3 + (4 + 1 + 1) + (4 + 1 + 0).
C34_CountedTwoMessages ==
    /\ lab.op = "count_tokens" /\ lab.kind = "gpt-3.5-turbo"
    /\ lab.X = <<Msg("user", <<"a">>), Msg("assistant", <<>>)>>
    /\ lab.tokens = 14

\* C35: the port's load_conversation is invoked only for a chat without a
\* live entry in the registry: resolving a chat that has one returns the
\* history of the entry, constructs no history and reads nothing from the
\* port, and no other call on such a chat loads.
C35_LoadOnlyOnMiss ==
    /\ lab.op = "get_session_history" /\ lab.present =>
           lab.out = lab.X /\ lab.constructed = 0 /\ lab.reads = 0
    /\ lab.op = "reset_conversation" /\ lab.present => lab.reads = 0

\* ------------------------------------------------- where the code departs
\* C1: through the Claude variant, a first-attempt turn without compaction
\* on a synchronised history ends with a history other than H, user q,
\* assistant r: the merge rewrote a stored message.
C1_MergedInPlace ==
    \E t \in Tasks :
        /\ Turn(t).pc = "complete" /\ Turn(t).attempt = 1 /\ Turn(t).synced0
        /\ Turn(t).sized /\ ~Turn(t).breached
        /\ cfg.provider = "claude" /\ cfg.persistence = "json"
        /\ Len(Turn(t).H0) = 1
        /\ Mem(Turn(t).chat)[1].content = Turn(t).H0[1].content \o <<NL>> \o Turn(t).query
        /\ Persisted(Turn(t).chat) = Mem(Turn(t).chat)

\* C2: the Claude client's rate-limit error ends the turn after one call,
\* wrapped into the localized message.
C2_ClaudeRateLimitWrapped ==
    \E t \in Tasks :
        /\ Turn(t).pc = "failed" /\ Turn(t).signal = "anthropic.RateLimitError"
        /\ Turn(t).calls = 1 /\ Turn(t).error = "localized_error"

\* C3: a turn that succeeds on its second attempt has appended its user
\* message twice, and the history holds both copies before the answer.
C3_DoubleAppend ==
    \E t \in Tasks :
        /\ Turn(t).pc = "complete" /\ Turn(t).attempt = 2 /\ Turn(t).adds = 2
        /\ ~Turn(t).compacted
        /\ Mem(Turn(t).chat) = Turn(t).H0 \o <<Msg("user", Turn(t).query),
                                                Msg("user", Turn(t).query),
                                                Msg("assistant", Turn(t).reply)>>

\* C4: at dispatch after the trim fallback the file-backed port still holds
\* the untrimmed sequence.
C4_TrimNotSaved ==
    \E t \in Tasks :
        /\ Turn(t).pc = "backend" /\ Turn(t).compaction = "trim"
        /\ cfg.persistence = "json" /\ cfg.provider = "openai"
        /\ Persisted(Turn(t).chat) = Turn(t).appended
        /\ Mem(Turn(t).chat) = LastN(Turn(t).appended, cfg.max_history_size)
        /\ Mem(Turn(t).chat) # Turn(t).appended

\* C5: a turn that found its entry stale completes on the entry it found:
\* no ChatHistory was constructed, nothing was loaded.
C5_StaleReused ==
    \E t \in Tasks :
        /\ Turn(t).pc = "complete" /\ Turn(t).stale /\ ~Turn(t).loaded
        /\ cfg.persistence = "json"

\* C7: with the no-op port the history at dispatch is [assistant s, user q]
\* while the port returns no sequence at all.
C7_NothingPersisted ==
    \E t \in Tasks :
        /\ Turn(t).pc = "backend" /\ Turn(t).breached /\ Turn(t).compaction = "summary"
        /\ Mem(Turn(t).chat) = <<Msg("assistant", Turn(t).summary),
                                  Msg("user", Turn(t).query)>>
        /\ PersistedIsNone(Turn(t).chat)

\* C8: with max_history_size = 0 the trim fallback dispatches the whole
\* history.
C8_TrimZeroKeepsAll ==
    \E t \in Tasks :
        /\ Turn(t).pc = "backend" /\ Turn(t).compaction = "trim"
        /\ cfg.max_history_size = 0
        /\ Turn(t).dispatched = Turn(t).appended /\ Len(Turn(t).dispatched) > 0

\* C9: with the summariser of the source a breach on a history of several
\* messages dispatches [assistant "", user q].
C9_EmptySummaryReplaces ==
    \E t \in Tasks :
        /\ Turn(t).pc = "backend" /\ Turn(t).breached /\ cfg.summariser = "shipped"
        /\ Len(Turn(t).appended) > 2
        /\ Turn(t).dispatched = <<Msg("assistant", <<>>), Msg("user", Turn(t).query)>>

\* C10: after a reset with the no-op port the history in memory is empty
\* and the port returns no sequence.
C10_ResetNothingPersisted ==
    \E c \in Chats :
        was_reset[c] /\ conv[c].present /\ Mem(c) = <<>> /\ PersistedIsNone(c)

\* C11: the empty summary of the source's summariser is handed to the
\* client as it is.
C11_EmptySummarySent ==
    \E t \in Tasks :
        /\ Turn(t).pc = "backend" /\ Turn(t).compaction = "summary"
        /\ Turn(t).sent # <<>> /\ Turn(t).sent[1] = Msg("assistant", <<>>)

\* C12: the Claude client's bad-request error ends the turn with the
\* generic localized message.
C12_ClaudeBadRequestGeneric ==
    \E t \in Tasks :
        /\ Turn(t).pc = "failed" /\ Turn(t).signal = "anthropic.BadRequestError"
        /\ Turn(t).calls = 1 /\ Turn(t).error = "localized_error"

\* C13: a turn whose compaction met a failing save returns a reply.
C13_CompactionSaveFailureSwallowed ==
    \E t \in Tasks :
        /\ Turn(t).pc = "complete" /\ Turn(t).save_failed
        /\ Turn(t).reply \in Replies /\ Turn(t).error = "none"

\* C14: trim(0) on a non-empty history leaves it whole.
C14_TrimZeroIsNoOp ==
    lab.op = "trim" /\ lab.n = 0 /\ Len(lab.X) > 0 /\ lab.after = lab.X

\* C20: the no-op port returns None after two saves.
C20_NoOpLoadsNone ==
    /\ lab.op = "save_save_load" /\ lab.kind = "noop"
    /\ lab.X # <<>> /\ lab.Y # <<>> /\ lab.loaded.none

\* C21: a ChatHistory on the no-op port holds None for a new chat.
C21_NoOpNewChatIsNone ==
    lab.op = "load_new" /\ lab.kind = "noop" /\ lab.loaded.none

\* C22: the Claude variant sends a message with empty content, and passes
\* the configured prompt although the input's system message is empty.
C22_ClaudeSendsEmptyContent ==
    /\ lab.op = "create_completion" /\ lab.kind = "claude"
    /\ lab.X = <<Msg("system", <<>>), Msg("user", <<>>)>>
    /\ lab.out = <<Msg("user", <<>>)>> /\ lab.p = Prompt(SystemPrompt)

\* C23: the OpenAI variant sends the history as it is, a user message first.
C23_OpenAISendsHistoryAsIs ==
    /\ lab.op = "create_completion" /\ lab.kind = "openai"
    /\ lab.X # <<>> /\ lab.X[1].role = "user" /\ lab.out = lab.X /\ lab.p.none

\* C24: two turns of one chat are suspended together.
C24_TwoTurnsOneChat ==
    \E c \in Chats : Cardinality(Suspended(c)) = 2

\* C26: on the no-op port, the first turn after a restart that followed a
\* turn of the chat finds None for a history and fails.
C26_NoOpRestartLoadsNone ==
    \E t \in Tasks :
        /\ restarted /\ cfg.persistence = "noop"
        /\ Turn(t).pc = "failed" /\ Turn(t).loaded /\ ~Turn(t).synced0
        /\ Turn(t).adds = 0 /\ Turn(t).error = "localized_error"

\* C29: the merge wrote the joined content into the history's own first
\* message of the run, and the second call joins once more.
C29_MergeRewritesStored ==
    /\ lab.op = "merge"
    /\ lab.X = <<Msg("user", <<"a">>), Msg("user", <<"a">>)>>
    /\ lab.after = <<Msg("user", <<"a", NL, "a">>), Msg("user", <<"a">>)>>
    /\ lab.out = <<Msg("user", <<"a", NL, "a">>)>>
    /\ lab.again = <<Msg("user", <<"a", NL, "a", NL, "a">>)>>

\* C32: a turn's answer was stored after the user message of another turn
\* of the chat, which is still suspended.
C32_ReplyAfterOtherTurnsMessage ==
    \E t \in Tasks, u \in Tasks :
        /\ Turn(t).pc = "complete" /\ Turn(u).pc = "backend"
        /\ Turn(t).chat = Turn(u).chat /\ Turn(t).query # Turn(u).query
        /\ Mem(Turn(t).chat) = <<Msg("user", Turn(t).query), Msg("user", Turn(u).query),
                                  Msg("assistant", Turn(t).reply)>>

\* C33: with a model of no known family a turn has appended and saved its
\* user message and then failed at the token count, before any client call.
C33_UnknownModelFailsInTurn ==
    \E t \in Tasks :
        /\ ~KnownModel(cfg.model)
        /\ Turn(t).pc = "failed" /\ Turn(t).adds = 1 /\ Turn(t).calls = 0
        /\ ~Turn(t).sized /\ Turn(t).error = "localized_error"
        /\ Mem(Turn(t).chat) = Turn(t).H0 \o <<Msg("user", Turn(t).query)>>
        /\ Persisted(Turn(t).chat) = Mem(Turn(t).chat)

\* C35: the history of a chat with an entry of two messages was resolved;
\* the entry's history was returned, and one more history was constructed
\* and loaded from the port on the way.
C35_ConstructedForLiveEntry ==
    /\ lab.op = "get_session_history" /\ lab.present
    /\ Len(lab.X) = 2 /\ lab.out = lab.X
    /\ lab.constructed = 1 /\ lab.reads = 1

====
